---- MODULE Spec2Model ----
(***************************************************************************)
(* HyperClean TX Voice Cloud Bridge: the /voice/ai webhook (both server    *)
(* files of the repository), the provider router with its budget ledger,   *)
(* the ElevenLabs synthesis adapter and the TwiML builders.                *)
(*                                                                         *)
(* Money is counted in Units of 1/10000 cent, so that the ledger's         *)
(* rounding to 0.01 cent (Math.round(x * 100) / 100) is visible.  The      *)
(* model computes with exact numbers where the code uses doubles.          *)
(* Time is counted in seconds; every timeout of the code is a whole        *)
(* number of seconds.                                                      *)
(*                                                                         *)
(* A text is a record [lead, head, tail, tlen]: lead ordinary characters,  *)
(* then the characters of head, one by one, then a run of tlen ordinary    *)
(* characters named by tail (no markup character in it, no white space at  *)
(* its ends).                                                              *)
(*                                                                         *)
(* Each request keeps a trace (log) of what it did, in order, and the      *)
(* class its routing error was logged under (logged).  The variable probe  *)
(* holds the argument and the result of a pure function that is examined   *)
(* alone (sanitizeXml, extractUserInput).                                  *)
(*                                                                         *)
(* src/unnamed/part_000 holds two server files one after the other.  Both  *)
(* /voice/ai handlers are modelled as written (env.handler says which one  *)
(* serves); the second file's line 185 (aapp.use) belongs to start-up and  *)
(* is outside the request flow modelled here.                              *)
(***************************************************************************)
EXTENDS Integers, Sequences, FiniteSets, TLC

VARIABLES env, now, rq, ledger, trail, probe

vars == <<env, now, rq, ledger, trail, probe>>

-----------------------------------------------------------------------------
(* Texts *)

\* lead counts ordinary characters in front of head (a prompt's fixed prefix)
Txt(h, t, n) == [lead |-> 0, head |-> h, tail |-> t, tlen |-> n]

EmptyText == Txt(<<>>, "", 0)

TextLen(t) == t.lead + Len(t.head) + t.tlen

\* a string is falsy in JavaScript exactly when it is empty (or absent)
Truthy(t) == TextLen(t) > 0

IsWhite(c) == c = " "

RECURSIVE DropLeadingWhite(_)
DropLeadingWhite(s) ==
    IF s # <<>> /\ IsWhite(Head(s)) THEN DropLeadingWhite(Tail(s)) ELSE s

RECURSIVE DropTrailingWhite(_)
DropTrailingWhite(s) ==
    IF s # <<>> /\ IsWhite(s[Len(s)])
    THEN DropTrailingWhite(SubSeq(s, 1, Len(s) - 1))
    ELSE s

\* String.prototype.trim
Trim(t) ==
    LET h1 == IF t.lead = 0 THEN DropLeadingWhite(t.head) ELSE t.head
        h2 == IF t.tlen = 0 THEN DropTrailingWhite(h1) ELSE h1
    IN  [t EXCEPT !.head = h2]

\* every occurrence of the character c in s replaced by ent, left to right
RECURSIVE ReplaceFrom(_, _, _, _)
ReplaceFrom(s, i, c, ent) ==
    IF i > Len(s) THEN <<>>
    ELSE (IF s[i] = c THEN ent ELSE <<s[i]>>) \o ReplaceFrom(s, i + 1, c, ent)

\* s.replace(/c/g, ent); the receiver is evaluated once, before the pass
ReplaceAll(s, c, ent) == CHOOSE out \in {ReplaceFrom(v, 1, c, ent) : v \in {s}} : TRUE

AmpEntity == <<"&", "a", "m", "p", ";">>
LtEntity == <<"&", "l", "t", ";">>
GtEntity == <<"&", "g", "t", ";">>
QuotEntity == <<"&", "q", "u", "o", "t", ";">>
AposEntity == <<"&", "a", "p", "o", "s", ";">>

\* a sanitizer that escapes the ampersand last, after the other four
sanitizeXmlAmpLast(t) ==
    [t EXCEPT !.head =
        ReplaceAll(ReplaceAll(ReplaceAll(ReplaceAll(ReplaceAll(
            t.head, "<", LtEntity), ">", GtEntity),
            "\"", QuotEntity), "'", AposEntity), "&", AmpEntity)]

sanitizeXml(t) ==
    [t EXCEPT !.head =
        ReplaceAll(ReplaceAll(ReplaceAll(ReplaceAll(ReplaceAll(
            t.head, "&", AmpEntity), "<", LtEntity), ">", GtEntity),
            "\"", QuotEntity), "'", AposEntity)]

FALLBACK_SAY == Txt(<<"I", "'">>, "ll text you a booking link right away.", 38)

FallbackSay2 == Txt(<<"I", "'">>, "ll text you our booking link right away.", 40)

UnauthorizedText == Txt(<<>>, "Unauthorized", 12)

DefaultPrompt ==
    Txt(<<>>, "Caller is asking about HyperClean TX services. Provide a warm, brief, speakable response.", 89)

twimlSay(text) == [kind |-> "Say", content |-> sanitizeXml(text)]

twimlPlay(url) == [kind |-> "Play", content |-> url]

-----------------------------------------------------------------------------
(* Budget ledger *)

\* Units in one hundredth of a cent, the ledger's rounding step
Hundredth == 100

\* Math.round((cents) * 100) / 100, on Units
RoundCents(u) == ((u + (Hundredth \div 2)) \div Hundredth) * Hundredth

createBudget(maxCents) == [maxCents |-> maxCents, usedCents |-> 0]

\* spend that also refuses a total equal to the ceiling
spendAtCeiling(b, cents) ==
    LET used == RoundCents(b.usedCents + cents)
    IN  [budget |-> [b EXCEPT !.usedCents = used],
         threw |-> used >= b.maxCents,
         returned |-> used]

\* spend(cents, reason): the budget after the call and whether it threw
spend(b, cents) ==
    LET used == RoundCents(b.usedCents + cents)
    IN  [budget |-> [b EXCEPT !.usedCents = used],
         threw |-> used > b.maxCents,
         returned |-> used]

estimateTokens(text) ==
    LET len == TextLen(text)
    IN  IF (len + 3) \div 4 > 1 THEN (len + 3) \div 4 ELSE 1

\* COST_TABLE_CENTS, cents per 1000 tokens, as Units per token
claude_in == 5
claude_out == 10
openai_in == 5
openai_out == 10
pplx_in == 6
pplx_out == 12
\* (approxTokens / 1000) * 5 cents
SimRate == 50

-----------------------------------------------------------------------------
(* Environment and inbound requests *)

Handlers == {1, 2}

ApiKeys == {"ANTHROPIC_API_KEY", "OPENAI_API_KEY", "PERPLEXITY_API_KEY", "ELEVENLABS_API_KEY"}

\* the configurations of process.env the model starts from: the Twilio token
\* set or not, and at most one API key missing
Envs ==
    [handler : Handlers, token : BOOLEAN,
     keys : {ApiKeys} \cup {ApiKeys \ {k} : k \in ApiKeys}]

NumReqs == 2

\* request slots; Spec handles request 1 alone
Reqs == 1 .. NumReqs

NoValue == 0 - 1

\* X-Twilio-Signature as received: absent, the expected digest, another
\* digest of the same length
Signatures == {"", "expected", "tampered"}

\* length of the header value; a base64 SHA-1 digest has 28 characters
SigLen(h) == IF h = "" THEN 0 ELSE 28

CLAUDE_INTENTS == {"concierge_dialog", "pm_outreach", "contractor_comms", "bi_narrative"}
OPENAI_INTENTS == {"code_scaffold", "formatting", "ops_patch"}
PPLX_INTENTS == {"market_research", "pricing_scan", "policy_update"}

\* intent labels of the modelled requests; "" is an absent intent
IntentLabels == {"", "ops_patch", "pricing_scan", "weather"}

Plain40 == Txt(<<>>, "plain text of forty characters", 40)
Markup == Txt(<<"a", "&", "<", "'">>, "", 0)
Blank == Txt(<<" ">>, "", 0)
PaddedMarkup == Txt(<<" ", "\"", ">">>, "quoted tail", 37)

\* the caller-input fields of the modelled payloads
Utterances ==
    { [SpeechResult |-> EmptyText, TranscriptionText |-> EmptyText, Body |-> EmptyText,
       Digits |-> EmptyText, prompt |-> EmptyText],
      [SpeechResult |-> EmptyText, TranscriptionText |-> EmptyText, Body |-> EmptyText,
       Digits |-> Txt(<<"1">>, "", 0), prompt |-> Plain40] }

\* the budget fields of the modelled payloads, in Units (NoValue: field
\* absent): the default, a ceiling of 0, and 0.01 cent against 0.02 cent
BudgetFields ==
    { [budgetCents |-> NoValue, budget_cents |-> NoValue],
      [budgetCents |-> NoValue, budget_cents |-> 0],
      [budgetCents |-> 100, budget_cents |-> 200] }

MaxApproxTokens == 3

Payloads ==
    { [intent |-> i, utter |-> u, approx_tokens |-> a, approxTokens |-> 0,
       force_delay |-> d, budget |-> b] :
        i \in IntentLabels, u \in Utterances, a \in {0, MaxApproxTokens},
        d \in BOOLEAN, b \in BudgetFields }

\* process.env.BUDGET_CENTS is not set in the modelled environments: 50 cents
DefaultBudget == 500000

\* an extraction that looks at Body before the speech fields
extractUserInputBodyFirst(payload) ==
    LET u == payload.utter
    IN  IF Truthy(u.Body) THEN u.Body
        ELSE IF Truthy(u.SpeechResult) THEN u.SpeechResult
        ELSE IF Truthy(u.TranscriptionText) THEN u.TranscriptionText
        ELSE IF Truthy(u.Digits) THEN u.Digits
        ELSE IF Truthy(u.prompt) THEN u.prompt
        ELSE DefaultPrompt

extractUserInput(payload) ==
    LET u == payload.utter
    IN  IF Truthy(u.SpeechResult) THEN u.SpeechResult
        ELSE IF Truthy(u.TranscriptionText) THEN u.TranscriptionText
        ELSE IF Truthy(u.Body) THEN u.Body
        ELSE IF Truthy(u.Digits) THEN u.Digits
        ELSE IF Truthy(u.prompt) THEN u.prompt
        ELSE DefaultPrompt

\* verifyTwilio(req): "throw", "true" or "false"
verifyTwilio(header) ==
    IF ~env.token THEN "throw"
    ELSE IF SigLen(header) # SigLen("expected") THEN "false"
    ELSE IF header = "expected" THEN "true"
    ELSE "false"

\* Number(req.body.budgetCents || req.body.budget_cents || process.env.BUDGET_CENTS || 50)
budgetMaxCents1(payload) ==
    IF payload.budget.budgetCents # NoValue THEN payload.budget.budgetCents
    ELSE IF payload.budget.budget_cents # NoValue THEN payload.budget.budget_cents
    ELSE DefaultBudget

\* Number(payload.budget_cents || payload.budgetCents || process.env.BUDGET_CENTS || 50)
budgetMaxCents2(payload) ==
    IF payload.budget.budget_cents # NoValue THEN payload.budget.budget_cents
    ELSE IF payload.budget.budgetCents # NoValue THEN payload.budget.budgetCents
    ELSE DefaultBudget

\* seconds
OuterTimeout == 8
PROVIDER_TIMEOUT_MS == 6
ForceDelay == PROVIDER_TIMEOUT_MS + 1
TtsTimeout == 5

SummaryPrefixLen == 57

summaryPrompt(text) == [text EXCEPT !.lead = SummaryPrefixLen]

\* no audio URL (elevenLabsTTS has not returned); file names count from 1
NoAudio == [file |-> 0]

NoTimers == [outer |-> NoValue, delay |-> NoValue, abort |-> NoValue, tts |-> NoValue]

\* a request not yet received
IdleReq ==
    [pc |-> "idle", sig |-> "", payload |-> CHOOSE p \in Payloads : TRUE,
     t0 |-> 0, verified |-> "none", intent |-> "",
     hasBudget |-> FALSE, budget |-> createBudget(0),
     rpc |-> "none", stage |-> "none", rerr |-> "none", rtext |-> EmptyText,
     calls |-> <<>>, net |-> <<>>, charges |-> <<>>,
     tpc |-> "none", ttsText |-> EmptyText, ttsCalls |-> 0, ttsNet |-> 0, files |-> 0,
     routeWait |-> "none", ttsWait |-> "none", ppx |-> EmptyText,
     audioUrl |-> NoAudio, log |-> <<>>, logged |-> "none", timers |-> NoTimers, resp |-> <<>>]

-----------------------------------------------------------------------------
(* The request flow.  Each operator below is the code that runs without      *)
(* suspension from one await to the next, applied to the request's record.   *)

\* the request's trace: what it did, in the order it did it
Log(q, ev, what, ok) == [q EXCEPT !.log = Append(@, [ev |-> ev, what |-> what, ok |-> ok])]

\* res.status(status).send(body)
Send(q, status, body) ==
    [Log(q, "respond", body.kind, status = 200)
        EXCEPT !.resp = Append(@, [status |-> status, body |-> body, at |-> now - q.t0])]

\* catch (_ttsErr) of the first file: the fixed message
ttsFailed1(q) == [Send(q, 200, twimlSay(FALLBACK_SAY)) EXCEPT !.pc = "done"]

\* catch (ttsErr) of the second file: the routed text, spoken
ttsFailed2(q) == [Send(q, 200, twimlSay(q.ttsText)) EXCEPT !.pc = "done"]

\* the handler resumes after its synthesis await, when it is still waiting
ttsSettled(q) ==
    IF q.pc # "tts" THEN q
    ELSE LET q0 == [q EXCEPT !.ttsWait = IF q.tpc = "resolved" THEN "ok" ELSE "error"]
             q1 == IF env.handler = 1 THEN [q0 EXCEPT !.timers.tts = NoValue] ELSE q0
         IN  IF q1.tpc = "resolved"
             THEN [Send(q1, 200, twimlPlay(q1.audioUrl)) EXCEPT !.pc = "done"]
             ELSE IF env.handler = 1 THEN ttsFailed1(q1) ELSE ttsFailed2(q1)

\* elevenLabsTTS up to its first await (fsp.mkdir)
elevenLabsTTS(q, text) ==
    LET q1 == [Log(q, "tts_invoke", "elevenlabs", TRUE)
                  EXCEPT !.ttsText = text, !.ttsCalls = @ + 1,
                         !.timers.tts = now + TtsTimeout, !.pc = "tts",
                         !.ttsWait = "pending"]
    IN  IF "ELEVENLABS_API_KEY" \notin env.keys
        THEN ttsSettled([q1 EXCEPT !.tpc = "rejected"])
        ELSE [q1 EXCEPT !.tpc = "mkdir"]

\* a handler that tests the routed text without trimming it
afterRoute1NoTrim(q) ==
    IF ~Truthy(q.rtext)
    THEN [Send(q, 200, twimlSay(FALLBACK_SAY)) EXCEPT !.pc = "done"]
    ELSE elevenLabsTTS(q, q.rtext)

\* after the provider stage of the first file: empty text, or synthesis
afterRoute1(q) ==
    LET text == IF Truthy(q.rtext) THEN Trim(q.rtext) ELSE EmptyText
    IN  IF ~Truthy(text)
        THEN [Send(q, 200, twimlSay(FALLBACK_SAY)) EXCEPT !.pc = "done"]
        ELSE elevenLabsTTS(q, text)

\* after the provider stage of the second file
afterRoute2(q) ==
    LET text == IF Truthy(q.rtext) THEN Trim(q.rtext) ELSE EmptyText
    IN  IF ~Truthy(text)
        THEN [Send(q, 200, twimlSay(FallbackSay2)) EXCEPT !.pc = "done"]
        ELSE elevenLabsTTS(q, text)

\* a catch that puts the error's message into the response
routeFailedLeaky(q) ==
    [Send(q, 200, twimlSay(Txt(<<>>, q.rerr, 1))) EXCEPT !.pc = "done"]

\* err.message as the catch of the provider stage sees it, cut into the
\* part a startsWith test looks at and the rest: the outer timer's error
\* when the handler timed out, else the error providerRouter rejected with
\* (an aborted fetch rejects with undici's AbortError)
ErrMessage(q) ==
    IF q.routeWait = "timeout"
    THEN IF env.handler = 1 THEN <<"timeout_", "8000ms">> ELSE <<"timeout_", "provider">>
    ELSE IF q.rerr = "budget_exceeded" THEN <<"budget_exceeded", ":used/max:reason">>
    ELSE IF q.rerr = "aborted" THEN <<"This operation was aborted">>
    ELSE IF q.rerr = "key_missing" THEN <<"API key missing">>
    ELSE <<"upstream", " error status: body">>

\* String(msg).startsWith(prefix)
StartsWith(msg, prefix) == msg # <<>> /\ msg[1] = prefix

\* the line the first file's catch logs: budget, timeout or provider error
classify1(msg) ==
    IF StartsWith(msg, "budget_exceeded") THEN "budget"
    ELSE IF StartsWith(msg, "timeout_") THEN "timeout"
    ELSE "provider_error"

\* the second file's catch logs 'Provider error:' for every error
classify2(msg) == "provider_error"

\* catch (err) of the provider stage, first file
routeFailed1(q) ==
    [Send(q, 200, twimlSay(FALLBACK_SAY))
        EXCEPT !.pc = "done", !.logged = classify1(ErrMessage(q))]

\* a catch that logs and sends nothing
routeFailedSilent(q) == [q EXCEPT !.pc = "done"]

\* catch (err) of the provider stage, second file
routeFailed2(q) ==
    [Send(q, 200, twimlSay(FallbackSay2))
        EXCEPT !.pc = "done", !.logged = classify2(ErrMessage(q))]

\* a handler that resumes at every settlement of the router's promise, also
\* after the timer has already ended its await
routeSettledAgain(q) ==
    LET q0 == [q EXCEPT !.routeWait = IF q.rpc = "resolved" THEN "ok" ELSE "error"]
        q1 == [q0 EXCEPT !.timers.outer = NoValue]
    IN  IF env.handler = 1
        THEN IF q1.rpc = "resolved" THEN afterRoute1(q1) ELSE routeFailed1(q1)
        ELSE IF q0.rpc = "resolved" THEN afterRoute2(q0) ELSE routeFailed2(q0)

\* the handler resumes after its provider await, when it is still waiting;
\* withTimeout clears its timer, the Promise.race of the second file does not
routeSettled(q) ==
    IF q.pc # "route" THEN q
    ELSE LET q0 == [q EXCEPT !.routeWait = IF q.rpc = "resolved" THEN "ok" ELSE "error"]
             q1 == [q0 EXCEPT !.timers.outer = NoValue]
         IN  IF env.handler = 1
             THEN IF q1.rpc = "resolved" THEN afterRoute1(q1) ELSE routeFailed1(q1)
             ELSE IF q0.rpc = "resolved" THEN afterRoute2(q0) ELSE routeFailed2(q0)

\* a router that issues a failed provider call once more
routerRejectRetry(q, kind) ==
    IF kind = "provider_error" /\ Len(q.net) = 1
    THEN [Log(q, "call", q.stage, TRUE)
            EXCEPT !.rpc = "call", !.net = Append(@, q.stage),
                   !.timers.abort = now + PROVIDER_TIMEOUT_MS]
    ELSE routeSettled([Log(q, "reject", kind, FALSE) EXCEPT !.rpc = "rejected", !.rerr = kind])

routerReject(q, kind) ==
    routeSettled([Log(q, "reject", kind, FALSE) EXCEPT !.rpc = "rejected", !.rerr = kind])

\* return { text: result.text || '', ... }
routerResolve(q, text) ==
    routeSettled([Log(q, "resolve", "router", TRUE) EXCEPT !.rpc = "resolved", !.rtext = text])

\* budget.spend(cents, reason) inside the router or an adapter
Charge(q, cents, reason) ==
    LET sp == spend(q.budget, cents)
    IN  [Log(q, "charge", reason, ~sp.threw)
            EXCEPT !.budget = sp.budget,
                  !.charges = Append(@, [reason |-> reason, cents |-> cents,
                                        before |-> q.budget.usedCents,
                                        threw |-> sp.threw, total |-> sp.returned])]

LastThrew(q) == q.charges[Len(q.charges)].threw

\* an adapter that issues its call first and charges for the input after
AdapterStartPayLater(q, provider, key, rate, reason, prompt) ==
    LET q1 == [Log(q, "invoke", provider, TRUE)
                  EXCEPT !.calls = Append(@, [provider |-> provider, prompt |-> prompt])]
        q2 == [Log(q1, "call", provider, TRUE)
                  EXCEPT !.rpc = "call", !.stage = provider,
                         !.net = Append(@, provider),
                         !.timers.abort = now + PROVIDER_TIMEOUT_MS]
        q3 == Charge(q2, estimateTokens(prompt) * rate, reason)
    IN  IF key \notin env.keys THEN routerReject(q1, "key_missing")
        ELSE IF LastThrew(q3) THEN routerReject([q3 EXCEPT !.timers.abort = NoValue],
                                                "budget_exceeded")
        ELSE q3

\* an adapter that goes on to its call whatever the input charge did
AdapterStartDeaf(q, provider, key, rate, reason, prompt) ==
    LET q1 == [Log(q, "invoke", provider, TRUE)
                  EXCEPT !.calls = Append(@, [provider |-> provider, prompt |-> prompt])]
        q2 == Charge(q1, estimateTokens(prompt) * rate, reason)
    IN  IF key \notin env.keys THEN routerReject(q1, "key_missing")
        ELSE [Log(q2, "call", provider, TRUE)
                EXCEPT !.rpc = "call", !.stage = provider,
                       !.net = Append(@, provider),
                       !.timers.abort = now + PROVIDER_TIMEOUT_MS]

\* an adapter up to its await of afetch: key check, input charge, the call
AdapterStart(q, provider, key, rate, reason, prompt) ==
    LET q1 == [Log(q, "invoke", provider, TRUE)
                  EXCEPT !.calls = Append(@, [provider |-> provider, prompt |-> prompt])]
        q2 == Charge(q1, estimateTokens(prompt) * rate, reason)
    IN  IF key \notin env.keys THEN routerReject(q1, "key_missing")
        ELSE IF LastThrew(q2) THEN routerReject(q2, "budget_exceeded")
        ELSE [Log(q2, "call", provider, TRUE)
                EXCEPT !.rpc = "call", !.stage = provider,
                        !.net = Append(@, provider),
                        !.timers.abort = now + PROVIDER_TIMEOUT_MS]

callClaude(q, prompt) ==
    AdapterStart(q, "claude", "ANTHROPIC_API_KEY", claude_in, "claude_in", prompt)

callChatGPT(q, prompt) ==
    AdapterStart(q, "openai", "OPENAI_API_KEY", openai_in, "openai_in", prompt)

callPerplexity(q, prompt) ==
    AdapterStart(q, "perplexity", "PERPLEXITY_API_KEY", pplx_in, "perplexity_in", prompt)

\* a dispatch that knows the three classes only and rejects any other label
routerDispatchStrict(q) ==
    LET user == extractUserInput(q.payload)
    IN  IF q.intent \in CLAUDE_INTENTS THEN callClaude(q, user)
        ELSE IF q.intent \in OPENAI_INTENTS THEN callChatGPT(q, user)
        ELSE IF q.intent \in PPLX_INTENTS THEN callPerplexity(q, user)
        ELSE routerReject(q, "no_route")

\* providerRouter from the intent dispatch on
routerDispatch(q) ==
    LET user == extractUserInput(q.payload)
    IN  IF q.intent \in CLAUDE_INTENTS THEN callClaude(q, user)
        ELSE IF q.intent \in OPENAI_INTENTS THEN callChatGPT(q, user)
        ELSE IF q.intent \in PPLX_INTENTS THEN callPerplexity(q, user)
        ELSE callClaude(q, user)

\* providerRouter up to its first await
providerRouter(q) ==
    LET approxTokens == IF q.payload.approx_tokens # 0 THEN q.payload.approx_tokens
                        ELSE q.payload.approxTokens
        q1 == IF approxTokens > 0 THEN Charge(q, approxTokens * SimRate, "sim_tokens") ELSE q
    IN  IF approxTokens > 0 /\ LastThrew(q1) THEN routerReject(q1, "budget_exceeded")
        ELSE IF q1.payload.force_delay
             THEN [q1 EXCEPT !.rpc = "delay", !.timers.delay = now + ForceDelay]
             ELSE routerDispatch(q1)

OutRate(provider) ==
    IF provider = "claude" THEN claude_out
    ELSE IF provider = "openai" THEN openai_out ELSE pplx_out

OutReason(provider) ==
    IF provider = "claude" THEN "claude_out"
    ELSE IF provider = "openai" THEN "openai_out" ELSE "perplexity_out"

\* a router that returns the research text without summarizing it
adapterFinishNoSummary(q, text) ==
    LET q1 == Charge(q, estimateTokens(text) * OutRate(q.stage), OutReason(q.stage))
    IN  IF LastThrew(q1) THEN routerReject(q1, "budget_exceeded")
        ELSE routerResolve(q1, text)

\* a router that gives the summarization stage a timer of its own
adapterFinishRearm(q, text) ==
    LET q0 == Log(q, "status", q.stage, TRUE)
        q1 == Charge(q0, estimateTokens(text) * OutRate(q.stage), OutReason(q.stage))
        q2 == Log(q1, "return", q.stage, TRUE)
    IN  IF LastThrew(q1) THEN routerReject(q1, "budget_exceeded")
        ELSE IF q1.stage = "perplexity"
             THEN callClaude([q2 EXCEPT !.ppx = text,
                                        !.timers.outer = IF q.pc = "route"
                                                         THEN now + OuterTimeout ELSE @],
                             summaryPrompt(text))
             ELSE routerResolve(q2, text)

\* an adapter after a success response with `text`, and the router after it
adapterFinish(q, text) ==
    LET q0 == Log(q, "status", q.stage, TRUE)
        q1 == Charge(q0, estimateTokens(text) * OutRate(q.stage), OutReason(q.stage))
        q2 == Log(q1, "return", q.stage, TRUE)
    IN  IF LastThrew(q1) THEN routerReject(q1, "budget_exceeded")
        ELSE IF q1.stage = "perplexity"
             THEN callClaude([q2 EXCEPT !.ppx = text], summaryPrompt(text))
             ELSE routerResolve(q2, text)

\* the first file's handler awaiting providerRouter with no timer beside it
voiceAi1NoTimer(q) ==
    IF verifyTwilio(q.sig) # "true"
    THEN [Send(q, 403, twimlSay(UnauthorizedText)) EXCEPT !.pc = "done", !.verified = "rejected"]
    ELSE providerRouter(
            [q EXCEPT !.verified = "ok", !.pc = "route", !.routeWait = "pending",
                      !.intent = IF q.payload.intent # "" THEN q.payload.intent
                                 ELSE "concierge_dialog",
                      !.hasBudget = TRUE,
                      !.budget = createBudget(budgetMaxCents1(q.payload))])

\* the first file's handler up to its provider await
voiceAi1(q) ==
    IF verifyTwilio(q.sig) # "true"
    THEN [Send(q, 403, twimlSay(UnauthorizedText)) EXCEPT !.pc = "done", !.verified = "rejected"]
    ELSE providerRouter(
            [q EXCEPT !.verified = "ok", !.pc = "route", !.routeWait = "pending",
                      !.intent = IF q.payload.intent # "" THEN q.payload.intent
                                 ELSE "concierge_dialog",
                      !.hasBudget = TRUE,
                      !.budget = createBudget(budgetMaxCents1(q.payload)),
                      !.timers.outer = now + OuterTimeout])

\* the second file's handler up to its provider await
voiceAi2(q) ==
    IF env.token /\ verifyTwilio(q.sig) # "true"
    THEN [Send(q, 403, twimlSay(UnauthorizedText)) EXCEPT !.pc = "done", !.verified = "rejected"]
    ELSE providerRouter(
            [q EXCEPT !.verified = IF env.token THEN "ok" ELSE "skipped", !.pc = "route",
                      !.routeWait = "pending",
                      !.intent = IF q.payload.intent # "" THEN q.payload.intent
                                 ELSE "concierge_dialog",
                      !.hasBudget = TRUE,
                      !.budget = createBudget(budgetMaxCents2(q.payload)),
                      !.timers.outer = now + OuterTimeout])

-----------------------------------------------------------------------------
(* Actions *)

\* handlers that share one budget object: what one request's handler does
\* to its budget shows in the budget of every other request that has one
PutShared(r, q) ==
    rq' = [o \in Reqs |->
            IF o = r THEN q
            ELSE IF q.hasBudget /\ rq[o].hasBudget THEN [rq[o] EXCEPT !.budget = q.budget]
            ELSE rq[o]]

\* the handler's closure of request r holds q; req, res and budget are
\* local to the handler call, so no other request's state changes
Put(r, q) == rq' = [rq EXCEPT ![r] = q]

\* texts a provider may answer with
ProviderTexts == {EmptyText, Blank, Markup, PaddedMarkup}

\* POST /voice/ai arrives with a payload of `payloads`: the handler runs up
\* to its first await
ReceiveFrom(r, payloads) ==
    /\ rq[r].pc = "idle"
    /\ \E sig \in Signatures, p \in payloads :
         LET q == [rq[r] EXCEPT !.sig = sig, !.payload = p, !.t0 = now]
         IN  Put(r, IF env.handler = 1 THEN voiceAi1(q) ELSE voiceAi2(q))
    /\ UNCHANGED <<env, now, ledger, trail, probe>>

Receive(r) == ReceiveFrom(r, Payloads)

\* the simulated delay of providerRouter ends
DelayFires(r) ==
    /\ rq[r].rpc = "delay"
    /\ rq[r].timers.delay # NoValue /\ now >= rq[r].timers.delay
    /\ Put(r, routerDispatch([rq[r] EXCEPT !.timers.delay = NoValue]))
    /\ UNCHANGED <<env, now, ledger, trail, probe>>

\* the provider answers with a success status and a body holding a text of
\* `texts`
ProviderRespondsWith(r, texts) ==
    /\ rq[r].rpc = "call"
    /\ \E text \in texts :
         Put(r, adapterFinish([rq[r] EXCEPT !.timers.abort = NoValue], text))
    /\ UNCHANGED <<env, now, ledger, trail, probe>>

ProviderResponds(r) == ProviderRespondsWith(r, ProviderTexts)

\* a failed call whose input charge is given back to the budget
ProviderFailsRefund(r) ==
    /\ rq[r].rpc = "call"
    /\ LET q == rq[r]
           back == [q EXCEPT !.budget.usedCents = q.charges[Len(q.charges)].before]
       IN  Put(r, routerReject([Log(back, "status", q.stage, FALSE)
                                  EXCEPT !.timers.abort = NoValue], "provider_error"))
    /\ UNCHANGED <<env, now, ledger, trail, probe>>

\* the provider answers with a non-success status, or the connection fails
ProviderFails(r) ==
    /\ rq[r].rpc = "call"
    /\ Put(r, routerReject([Log(rq[r], "status", rq[r].stage, FALSE)
                                EXCEPT !.timers.abort = NoValue], "provider_error"))
    /\ UNCHANGED <<env, now, ledger, trail, probe>>

\* afetch's timer aborts the call in flight
AbortFires(r) ==
    /\ rq[r].rpc = "call"
    /\ rq[r].timers.abort # NoValue /\ now >= rq[r].timers.abort
    /\ Put(r, routerReject([Log(rq[r], "abort", rq[r].stage, FALSE)
                                EXCEPT !.timers.abort = NoValue], "aborted"))
    /\ UNCHANGED <<env, now, ledger, trail, probe>>

\* the 8000 ms timer of the provider stage fires
OuterFires(r) ==
    /\ rq[r].timers.outer # NoValue /\ now >= rq[r].timers.outer
    /\ LET q == [rq[r] EXCEPT !.timers.outer = NoValue]
           t == [q EXCEPT !.routeWait = "timeout"]
       IN  Put(r, IF q.pc # "route" THEN q
                  ELSE IF env.handler = 1 THEN routeFailed1(t) ELSE routeFailed2(t))
    /\ UNCHANGED <<env, now, ledger, trail, probe>>

\* fsp.mkdir (recursive) is done; the synthesis call is issued
TtsMkdir(r) ==
    /\ rq[r].tpc = "mkdir"
    /\ Put(r, [Log(rq[r], "tts_call", "elevenlabs", TRUE)
                  EXCEPT !.tpc = "fetch", !.ttsNet = @ + 1])
    /\ UNCHANGED <<env, now, ledger, trail, probe>>

\* the synthesis backend answers (success status or not), or the call fails
TtsResponds(r) ==
    /\ rq[r].tpc = "fetch"
    /\ \E ok \in BOOLEAN :
         Put(r, IF ok THEN [rq[r] EXCEPT !.tpc = "write"]
                ELSE ttsSettled([rq[r] EXCEPT !.tpc = "rejected"]))
    /\ UNCHANGED <<env, now, ledger, trail, probe>>

\* fsp.writeFile is done; elevenLabsTTS returns the audio URL
TtsWritten(r) ==
    /\ rq[r].tpc = "write"
    /\ Put(r, ttsSettled([Log(rq[r], "file", "audio", TRUE)
                              EXCEPT !.tpc = "resolved", !.files = @ + 1,
                                       !.audioUrl = [file |-> rq[r].files + 1]]))
    /\ UNCHANGED <<env, now, ledger, trail, probe>>

\* the timer of the synthesis stage fires
TtsTimerFires(r) ==
    /\ rq[r].timers.tts # NoValue /\ now >= rq[r].timers.tts
    /\ LET q == [rq[r] EXCEPT !.timers.tts = NoValue]
           t == [q EXCEPT !.ttsWait = "timeout"]
       IN  Put(r, IF q.pc # "tts" THEN q
                  ELSE IF env.handler = 1 THEN ttsFailed1(t) ELSE ttsFailed2(t))
    /\ UNCHANGED <<env, now, ledger, trail, probe>>

\* no pure function is under test
NoProbe == [input |-> <<>>, output |-> <<>>, done |-> FALSE]

Deadlines ==
    UNION { {rq[r].timers.outer, rq[r].timers.delay, rq[r].timers.abort, rq[r].timers.tts} :
            r \in Reqs } \ {NoValue}

\* one second passes; a timer that is due fires before time moves on
Tick ==
    /\ Deadlines # {}
    /\ \A d \in Deadlines : d > now
    /\ now' = now + 1
    /\ UNCHANGED <<env, rq, ledger, trail, probe>>

Init ==
    /\ env \in Envs
    /\ now = 0
    /\ rq = [r \in Reqs |-> IdleReq]
    /\ ledger = createBudget(0)
    /\ trail = <<>>
    /\ probe = NoProbe

Next ==
    \/ Receive(1)
    \/ Tick
    \/ \E r \in Reqs : DelayFires(r)
    \/ \E r \in Reqs : ProviderResponds(r)
    \/ \E r \in Reqs : ProviderFails(r)
    \/ \E r \in Reqs : AbortFires(r)
    \/ \E r \in Reqs : OuterFires(r)
    \/ \E r \in Reqs : TtsMkdir(r)
    \/ \E r \in Reqs : TtsResponds(r)
    \/ \E r \in Reqs : TtsWritten(r)
    \/ \E r \in Reqs : TtsTimerFires(r)

Spec == Init /\ [][Next]_vars

\* the event loop runs every timer that is due, and time passes; nothing is
\* assumed of the providers and the synthesis backend, which may never answer
TimerStep ==
    \/ Tick
    \/ \E r \in Reqs :
         DelayFires(r) \/ AbortFires(r) \/ OuterFires(r) \/ TtsTimerFires(r)

TimersFire == WF_vars(TimerStep)

\* the same program on fewer payloads, for the properties of whole behaviours
LivePayloads ==
    { p \in Payloads :
        /\ p.intent \in {"", "pricing_scan"}
        /\ p.utter.Digits = EmptyText
        /\ p.budget.budget_cents # 0 }

LiveReceive == ReceiveFrom(1, LivePayloads)

LiveNext ==
    \/ LiveReceive
    \/ TimerStep
    \/ \E r \in Reqs : ProviderResponds(r)
    \/ \E r \in Reqs : ProviderFails(r)
    \/ \E r \in Reqs : TtsMkdir(r)
    \/ \E r \in Reqs : TtsResponds(r)
    \/ \E r \in Reqs : TtsWritten(r)

FairSpec == Init /\ [][LiveNext]_vars /\ TimersFire

-----------------------------------------------------------------------------
(* Several requests handled at once *)

\* payloads of the concurrent requests: no intent or a research intent, no
\* caller input, with or without simulated tokens, the default ceiling or a
\* small one
ConcPayloads ==
    { p \in Payloads :
        /\ p.intent \in {"", "pricing_scan"} /\ ~p.force_delay
        /\ \A f \in DOMAIN p.utter : p.utter[f] = EmptyText
        /\ p.budget.budget_cents # 0 }

ConcInit ==
    /\ env \in {e \in Envs : e.token /\ e.keys = ApiKeys}
    /\ now = 0
    /\ rq = [r \in Reqs |-> IdleReq]
    /\ ledger = createBudget(0)
    /\ trail = <<>>
    /\ probe = NoProbe

ConcReceive == \E r \in Reqs : ReceiveFrom(r, ConcPayloads)

ConcResponds == \E r \in Reqs : ProviderRespondsWith(r, {Markup})

\* the steps of the requests, interleaved in any order; no time passes, so
\* no timer fires
ConcNext ==
    \/ ConcReceive
    \/ ConcResponds
    \/ \E r \in Reqs : ProviderFails(r)
    \/ \E r \in Reqs : TtsMkdir(r)
    \/ \E r \in Reqs : TtsResponds(r)
    \/ \E r \in Reqs : TtsWritten(r)

ConcSpec == ConcInit /\ [][ConcNext]_vars

-----------------------------------------------------------------------------
(* The ledger alone: one budget and any sequence of charges *)

MaxCharges == 4

\* ceilings and charge amounts in Units; 100 Units are 0.01 cent
LedgerCeilings == {0, 50, 100, 250, 300}
Amounts == {0, 30, 50, 100, 150, 200}

LedgerInit ==
    /\ env = [handler |-> 1, token |-> TRUE, keys |-> ApiKeys]
    /\ now = 0
    /\ rq = [r \in Reqs |-> IdleReq]
    /\ ledger \in {createBudget(c) : c \in LedgerCeilings}
    /\ trail = <<>>
    /\ probe = NoProbe

\* budget.spend(cents, reason) on the ledger, its outcome recorded
LedgerSpend ==
    /\ Len(trail) < MaxCharges
    /\ \E cents \in Amounts :
         LET sp == spend(ledger, cents)
         IN  /\ ledger' = sp.budget
             /\ trail' = Append(trail, [cents |-> cents, before |-> ledger.usedCents,
                                         threw |-> sp.threw, returned |-> sp.returned])
    /\ UNCHANGED <<env, now, rq, probe>>

LedgerNext == LedgerSpend

LedgerSpec == LedgerInit /\ [][LedgerNext]_vars

-----------------------------------------------------------------------------
(* The markup sanitizer alone: one string, sanitized *)

MaxLen == 4

\* the five markup characters, an ordinary letter, and the characters that
\* let an input already hold an entity ("&lt;")
Alphabet == {"&", "<", ">", "\"", "'", "a", "l", "t", ";"}

Strings == UNION { [1 .. n -> Alphabet] : n \in 0 .. MaxLen }

SanInit ==
    /\ env = [handler |-> 1, token |-> TRUE, keys |-> ApiKeys]
    /\ now = 0
    /\ rq = [r \in Reqs |-> IdleReq]
    /\ ledger = createBudget(0)
    /\ trail = <<>>
    /\ probe \in {[input |-> s, output |-> <<>>, done |-> FALSE] : s \in Strings}

\* twimlSay(text): the characters put between <Say> and </Say>
Sanitize ==
    /\ ~probe.done
    /\ probe' = [probe EXCEPT !.output = twimlSay(Txt(probe.input, "", 0)).content.head,
                              !.done = TRUE]
    /\ UNCHANGED <<env, now, rq, ledger, trail>>

SanNext == Sanitize

SanSpec == SanInit /\ [][SanNext]_vars

-----------------------------------------------------------------------------
(* The extraction of the caller's input alone: one payload, extracted *)

InputFields == <<"SpeechResult", "TranscriptionText", "Body", "Digits", "prompt">>

\* the value of a field the payload does not have (undefined): falsy, like
\* the empty string, and no string
Absent == Txt(<<>>, "undefined", 0)

\* a text that tells which field it came from
FieldText(f) == Txt(<<>>, f, 5)

\* a field is absent, empty, white space, or holds a text of its own
FieldValues(f) == {Absent, EmptyText, Blank, FieldText(f)}

UtterRecords ==
    [SpeechResult : FieldValues("SpeechResult"),
     TranscriptionText : FieldValues("TranscriptionText"),
     Body : FieldValues("Body"), Digits : FieldValues("Digits"),
     prompt : FieldValues("prompt")]

\* the argument of extractUserInput: a payload, or none at all
ExtractArgs ==
    {[given |-> TRUE, utter |-> u] : u \in UtterRecords}
        \cup {[given |-> FALSE, utter |-> [f \in DOMAIN (CHOOSE u \in UtterRecords : TRUE) |-> Absent]]}

ExtractInit ==
    /\ env = [handler |-> 1, token |-> TRUE, keys |-> ApiKeys]
    /\ now = 0
    /\ rq = [r \in Reqs |-> IdleReq]
    /\ ledger = createBudget(0)
    /\ trail = <<>>
    /\ probe \in {[input |-> a, output |-> Absent, done |-> FALSE] : a \in ExtractArgs}

\* extractUserInput(payload = {}): an argument not given is the empty object,
\* every field of which is absent
Extract ==
    /\ ~probe.done
    /\ probe' = [probe EXCEPT !.output = extractUserInput([utter |-> probe.input.utter]),
                              !.done = TRUE]
    /\ UNCHANGED <<env, now, rq, ledger, trail>>

ExtractNext == Extract

ExtractSpec == ExtractInit /\ [][ExtractNext]_vars

-----------------------------------------------------------------------------
(* Properties *)

\* the one response a finished request has sent
TheResponse(q) == q.resp[1]

FallbackOf(h) == IF h = 1 THEN FALLBACK_SAY ELSE FallbackSay2

\* C1: when routing succeeded with non-empty trimmed text and the synthesis
\* await ended in an error or in its timeout, the response is a Say of the
\* routed text, escaped, and not the fixed fallback message.
C1_SynthesisFailureSpeaksText ==
    \A r \in Reqs :
        LET q == rq[r]
        IN  (q.routeWait = "ok" /\ Truthy(Trim(q.rtext))
                /\ q.ttsWait \in {"error", "timeout"})
            => /\ Len(q.resp) = 1
               /\ TheResponse(q).body = twimlSay(Trim(q.rtext))
               /\ TheResponse(q).body # twimlSay(FallbackOf(env.handler))

\* C2: the recorded spent amount of a request's budget never exceeds its
\* ceiling.
C2_LedgerNeverExceedsCeiling ==
    \A r \in Reqs :
        rq[r].hasBudget => rq[r].budget.usedCents <= rq[r].budget.maxCents

\* C3: a charge that failed with budget_exceeded left the spent amount as it
\* was before the call.
C3_FailingChargeCommitsNothing ==
    \A r \in Reqs :
        LET q == rq[r]
        IN  (q.charges # <<>> /\ LastThrew(q))
            => q.budget.usedCents = q.charges[Len(q.charges)].before

Unauthorized403 == [status |-> 403, body |-> twimlSay(UnauthorizedText), at |-> 0]

\* C4: a request whose signature header is missing or is not the expected
\* digest is answered with the Unauthorized message, and no budget is
\* created, no adapter invoked and no synthesis call made for it.
C4_BadSignatureRejectedBeforeWork ==
    \A r \in Reqs :
        LET q == rq[r]
        IN  (q.pc # "idle" /\ q.sig # "expected")
            => /\ q.resp = <<Unauthorized403>>
               /\ ~q.hasBudget
               /\ q.calls = <<>> /\ q.net = <<>> /\ q.ttsCalls = 0

\* C5: with no TWILIO_AUTH_TOKEN configured every request is answered
\* Unauthorized, and no request has a budget, a routed call or a synthesis
\* call without having been positively verified.
C5_VerificationFailsClosed ==
    \A r \in Reqs :
        LET q == rq[r]
        IN  /\ (q.pc # "idle" /\ ~env.token) => q.resp = <<Unauthorized403>>
            /\ (q.hasBudget \/ q.calls # <<>> \/ q.ttsCalls > 0) => q.verified = "ok"

\* C7: when routing of a verified request failed (rejection of any kind, or
\* the provider-stage timeout), the one response is the fixed fallback Say,
\* the same whatever the failure was.
C7_RoutingFailureUniformFallback ==
    \A r \in Reqs :
        LET q == rq[r]
        IN  (q.verified = "ok" /\ q.routeWait \in {"error", "timeout"})
            => /\ Len(q.resp) = 1
               /\ TheResponse(q).status = 200
               /\ TheResponse(q).body = twimlSay(FallbackOf(env.handler))

C7_Witness ==
    \E r \in Reqs :
        /\ rq[r].verified = "ok" /\ rq[r].routeWait = "error"
        /\ rq[r].rerr = "budget_exceeded" /\ Len(rq[r].charges) > 1
        /\ rq[r].resp # <<>>

\* C8: the provider stage is never still awaited more than 8 s after the
\* request arrived; when its timer fired first, the fallback message was
\* sent at exactly 8 s and synthesis is never started for that request.
C8_ProviderTimeoutAnswersAtDeadline ==
    \A r \in Reqs :
        LET q == rq[r]
        IN  /\ q.routeWait = "pending" => now - q.t0 <= OuterTimeout
            /\ q.routeWait = "timeout"
               => /\ Len(q.resp) = 1
                  /\ TheResponse(q).body = twimlSay(FallbackOf(env.handler))
                  /\ TheResponse(q).at = OuterTimeout
                  /\ q.ttsCalls = 0 /\ q.tpc = "none"

\* the router resolved after the provider-stage timer had answered
C8_Witness ==
    \E r \in Reqs :
        /\ rq[r].routeWait = "timeout" /\ rq[r].rpc = "resolved"
        /\ Truthy(Trim(rq[r].rtext)) /\ rq[r].resp # <<>>

\* C6: every request that has arrived is eventually answered, whatever the
\* verification, the router and the synthesis do, given that timers fire.
C6_EveryRequestAnswered ==
    (\E r \in Reqs : rq[r].pc \notin {"idle", "done"})
        ~> (\A r \in Reqs : rq[r].pc # "idle" => rq[r].pc = "done" /\ Len(rq[r].resp) = 1)

\* answered by the synthesis timer while the synthesis call never completed
C6_Witness ==
    \E r \in Reqs :
        /\ rq[r].ttsWait = "timeout" /\ rq[r].tpc = "fetch"
        /\ rq[r].pc = "done" /\ Len(rq[r].resp) = 1

IsPrefix(a, b) == Len(a) <= Len(b) /\ a = SubSeq(b, 1, Len(a))

\* the two adapter invocations of the research pipeline
ResearchCalls(q) ==
    << [provider |-> "perplexity", prompt |-> extractUserInput(q.payload)],
       [provider |-> "claude", prompt |-> summaryPrompt(q.ppx)] >>

ResearchReasons(q) ==
    (IF q.payload.approx_tokens > 0 THEN <<"sim_tokens">> ELSE <<>>)
        \o <<"perplexity_in", "perplexity_out", "claude_in", "claude_out">>

\* every charge was applied to the running total left by the one before
OneBudget(q) ==
    /\ \A i \in 1 .. Len(q.charges) :
         q.charges[i].before = (IF i = 1 THEN 0 ELSE q.charges[i - 1].total)
    /\ q.budget.usedCents = (IF q.charges = <<>> THEN 0 ELSE q.charges[Len(q.charges)].total)

\* C10 as stated: a research-class request whose routing has ended made
\* exactly the two calls, research then summarization, with four charges.
C10_ResearchAlwaysTwoCalls ==
    \A r \in Reqs :
        LET q == rq[r]
        IN  (q.intent \in PPLX_INTENTS /\ q.rpc \in {"resolved", "rejected"})
            => /\ q.calls = ResearchCalls(q)
               /\ [i \in 1 .. Len(q.charges) |-> q.charges[i].reason] = ResearchReasons(q)

\* C10: a research-class request invokes the research adapter with the
\* caller's input first and the conversational adapter, with the summary
\* prompt of the research text, only after it, and nothing else; when its
\* routing succeeds it made exactly these two calls and the four charges,
\* in order, on the one budget, whose total is within the ceiling.
C10_ResearchPipelineOrder ==
    \A r \in Reqs :
        LET q == rq[r]
        IN  q.intent \in PPLX_INTENTS
            => /\ IsPrefix(q.calls, ResearchCalls(q))
               /\ IsPrefix(q.net, <<"perplexity", "claude">>)
               /\ OneBudget(q)
               /\ q.rpc = "resolved"
                  => /\ q.calls = ResearchCalls(q)
                     /\ q.net = <<"perplexity", "claude">>
                     /\ [i \in 1 .. Len(q.charges) |-> q.charges[i].reason]
                            = ResearchReasons(q)
                     /\ \A i \in 1 .. Len(q.charges) : ~q.charges[i].threw
                     /\ q.budget.usedCents <= q.budget.maxCents

C10_Witness ==
    \E r \in Reqs :
        /\ rq[r].intent \in PPLX_INTENTS /\ rq[r].rpc = "resolved"
        /\ Len(rq[r].calls) = 2 /\ Len(rq[r].charges) = 5
        /\ rq[r].ppx = PaddedMarkup

-----------------------------------------------------------------------------
(* Properties of the ledger alone *)

RECURSIVE PrefixSum(_)
PrefixSum(i) == IF i = 0 THEN 0 ELSE trail[i].cents + PrefixSum(i - 1)

\* the multiple of 0.01 cent nearest to u, the upper one at a tie
NearestHundredth(u) ==
    CHOOSE m \in {k * Hundredth : k \in 0 .. (u \div Hundredth) + 1} :
        2 * m - Hundredth <= 2 * u /\ 2 * u < 2 * m + Hundredth

\* C9 as stated: a charge fails exactly when spent + amount is above the
\* ceiling; while every prefix sum is within the ceiling every charge
\* succeeds and returns the exact running sum.
C9_ExactPrefixSums ==
    \A i \in 1 .. Len(trail) :
        /\ trail[i].threw <=> (trail[i].before + trail[i].cents > ledger.maxCents)
        /\ (\A j \in 1 .. i : PrefixSum(j) <= ledger.maxCents)
           => ~trail[i].threw /\ trail[i].returned = PrefixSum(i)

\* C9: each charge makes the total (spent + amount) rounded to the nearest
\* 0.01 cent and fails exactly when that rounded total is above the ceiling
\* (equality succeeds); with amounts that are whole multiples of 0.01 cent
\* the totals are the exact prefix sums, a charge fails exactly when its
\* prefix sum is above the ceiling, and the final spent is the sum.
C9_RoundedPrefixSums ==
    /\ \A i \in 1 .. Len(trail) :
         /\ trail[i].returned = NearestHundredth(trail[i].before + trail[i].cents)
         /\ trail[i].threw <=> (trail[i].returned > ledger.maxCents)
         /\ (i > 1 /\ ~trail[i - 1].threw) => trail[i].before = trail[i - 1].returned
    /\ (trail # <<>> /\ ~trail[Len(trail)].threw)
       => ledger.usedCents = trail[Len(trail)].returned
    /\ (\A i \in 1 .. Len(trail) : trail[i].cents % Hundredth = 0)
       => /\ \A i \in 1 .. Len(trail) :
               /\ trail[i].returned = PrefixSum(i)
               /\ trail[i].threw <=> (PrefixSum(i) > ledger.maxCents)
          /\ ledger.usedCents = PrefixSum(Len(trail))

\* a charge that brought the total exactly to the ceiling succeeded, after
\* a charge the rounding changed
C9_Witness ==
    /\ Len(trail) = MaxCharges
    /\ \E i \in 1 .. Len(trail) :
         /\ trail[i].cents > 0 /\ ~trail[i].threw
         /\ trail[i].returned = ledger.maxCents
    /\ \E i \in 1 .. Len(trail) : trail[i].returned # trail[i].before + trail[i].cents

-----------------------------------------------------------------------------
(* Routing *)

\* every label of the three classes, the labels of the modelled requests
\* ("" is an absent intent, "weather" is in no class)
AllLabels == CLAUDE_INTENTS \cup OPENAI_INTENTS \cup PPLX_INTENTS \cup IntentLabels

\* the adapter a label's class names; a label in no class is conversational
ExpectedAdapter(label) ==
    IF label \in OPENAI_INTENTS THEN "openai"
    ELSE IF label \in PPLX_INTENTS THEN "perplexity"
    ELSE "claude"

RouterErrors == {"none", "key_missing", "budget_exceeded", "provider_error", "aborted"}

\* the simulated-tokens charge failed, so the router never came to dispatch
FailedBeforeDispatch(q) ==
    q.charges # <<>> /\ q.charges[1].reason = "sim_tokens" /\ q.charges[1].threw

\* C11: routing is total.  Once the router came to its dispatch an adapter
\* has been invoked, the one of the label's class, and a label in no class
\* (or an absent intent) has the conversational adapter; outside the research
\* class there is one adapter invocation and at most one network call, to
\* that adapter only; the router never ends in an outcome other than its
\* result or an adapter's failure.  At the dispatch itself, every label at
\* all selects exactly one adapter.
C11_RoutingIsTotal ==
    \A r \in Reqs :
        LET q == rq[r]
        IN  /\ q.rerr \in RouterErrors
            /\ (q.rpc \notin {"none", "delay"} /\ ~FailedBeforeDispatch(q))
               => /\ q.calls # <<>>
                  /\ q.calls[1].provider = ExpectedAdapter(q.payload.intent)
                  /\ q.calls[1].prompt = extractUserInput(q.payload)
            /\ q.intent \notin PPLX_INTENTS
               => /\ Len(q.calls) <= 1 /\ Len(q.net) <= 1
                  /\ \A i \in 1 .. Len(q.net) : q.net[i] = ExpectedAdapter(q.payload.intent)
                  /\ q.rpc = "resolved" => Len(q.calls) = 1 /\ Len(q.net) = 1
            /\ q.rpc = "delay"
               => \A label \in AllLabels :
                    LET d == routerDispatch([q EXCEPT !.intent = label])
                    IN  /\ Len(d.calls) = 1
                        /\ d.calls[1].provider = ExpectedAdapter(label)
                        /\ d.rerr \in RouterErrors

\* a label of no class, routed to Claude and answered
C11_Witness ==
    \E r \in Reqs :
        /\ rq[r].payload.intent = "weather" /\ rq[r].rpc = "resolved"
        /\ rq[r].calls # <<>> /\ rq[r].calls[1].provider = "claude"
        /\ rq[r].net = <<"claude">>

-----------------------------------------------------------------------------
(* Empty text and synthesis *)

\* C12: when the routing of a verified request succeeded and the routed
\* text is empty, or white space only, the one response is the fixed
\* fallback Say and synthesis was never invoked for the request.
C12_EmptyTextNeverSynthesized ==
    \A r \in Reqs :
        LET q == rq[r]
        IN  (q.verified = "ok" /\ q.routeWait = "ok" /\ ~Truthy(Trim(q.rtext)))
            => /\ q.pc = "done"
               /\ q.resp = <<[status |-> 200, body |-> twimlSay(FallbackOf(env.handler)),
                              at |-> TheResponse(q).at]>>
               /\ q.ttsCalls = 0 /\ q.tpc = "none" /\ q.ttsNet = 0 /\ q.files = 0

\* the provider answered with white space only
C12_Witness ==
    \E r \in Reqs :
        /\ rq[r].verified = "ok" /\ rq[r].routeWait = "ok"
        /\ rq[r].rtext = Blank /\ rq[r].resp # <<>>

\* C13: a verified request whose routing succeeded with non-empty text and
\* whose synthesis returned within its timeout is answered with a Play of
\* the URL synthesis returned; and a Play is sent in no other case: only to
\* a request that carried the expected signature and was verified, after
\* routing succeeded with non-empty text and synthesis returned that URL.
C13_PlayOnlyAfterVerifiedSuccess ==
    \A r \in Reqs :
        LET q == rq[r]
        IN  /\ (q.verified = "ok" /\ q.routeWait = "ok" /\ Truthy(Trim(q.rtext))
                    /\ q.ttsWait = "ok")
               => q.resp = <<[status |-> 200, body |-> twimlPlay(q.audioUrl),
                              at |-> TheResponse(q).at]>>
            /\ \A i \in 1 .. Len(q.resp) :
                 q.resp[i].body.kind = "Play"
                 => /\ q.sig = "expected" /\ q.verified = "ok"
                    /\ q.routeWait = "ok" /\ Truthy(Trim(q.rtext))
                    /\ q.ttsWait = "ok" /\ q.tpc = "resolved"
                    /\ q.audioUrl # NoAudio
                    /\ q.resp[i].body.content = q.audioUrl

-----------------------------------------------------------------------------
(* Properties of the sanitizer alone *)

Entities ==
    { [ent |-> AmpEntity, ch |-> "&"], [ent |-> LtEntity, ch |-> "<"],
      [ent |-> GtEntity, ch |-> ">"], [ent |-> QuotEntity, ch |-> "\""],
      [ent |-> AposEntity, ch |-> "'"] }

StartsAt(s, i, pat) ==
    i + Len(pat) - 1 <= Len(s) /\ SubSeq(s, i, i + Len(pat) - 1) = pat

\* the entity that starts at position i of s, if there is one
EntityAt(s, i) == {e \in Entities : StartsAt(s, i, e.ent)}

\* standard unescaping: each of the five entities becomes its character; an
\* ampersand that starts no entity is not markup and is marked as such
RECURSIVE Unescape(_, _)
Unescape(s, i) ==
    IF i > Len(s) THEN <<>>
    ELSE IF EntityAt(s, i) # {}
         THEN LET e == CHOOSE x \in EntityAt(s, i) : TRUE
              IN  <<e.ch>> \o Unescape(s, i + Len(e.ent))
         ELSE IF s[i] = "&" THEN <<"bare ampersand">> \o Unescape(s, i + 1)
         ELSE <<s[i]>> \o Unescape(s, i + 1)

\* C14: the sanitized string holds none of < > " ' raw and no ampersand
\* other than at the start of one of the five entities, and unescaping it
\* gives the input string again.
C14_SanitizerRoundTrip ==
    probe.done
    => /\ \A i \in 1 .. Len(probe.output) :
            /\ probe.output[i] \notin {"<", ">", "\"", "'"}
            /\ probe.output[i] = "&" => EntityAt(probe.output, i) # {}
       /\ Unescape(probe.output, 1) = probe.input

\* an input that already reads as an entity: its ampersand is escaped once
C14_Witness ==
    /\ probe.done
    /\ probe.input = <<"&", "l", "t", ";">>
    /\ probe.output = <<"&", "a", "m", "p", ";", "l", "t", ";">>

-----------------------------------------------------------------------------
(* Order of charges and calls *)

Providers == {"claude", "openai", "perplexity"}

InReason(provider) ==
    IF provider = "claude" THEN "claude_in"
    ELSE IF provider = "openai" THEN "openai_in" ELSE "perplexity_in"

InReasons == {InReason(p) : p \in Providers}

OutReasons == {OutReason(p) : p \in Providers}

Ev(ev, what, ok) == [ev |-> ev, what |-> what, ok |-> ok]

\* the number of entries of the trace that satisfy Test
CountLog(L, Test(_)) == Cardinality({i \in 1 .. Len(L) : Test(L[i])})

\* C15: in every request's trace, a network call directly follows the
\* successful input charge of its adapter, which directly follows the
\* adapter's invocation; an output charge directly follows the success
\* status of that adapter's call; an adapter returns directly after its
\* successful output charge, and the router resolves only after an adapter
\* returned; so there are as many successful output charges as returns.
C15_ChargesBracketEachCall ==
    \A r \in Reqs :
        LET L == rq[r].log
        IN  /\ \A i \in 1 .. Len(L) :
                 /\ L[i].ev = "call"
                    => i > 2 /\ L[i - 1] = Ev("charge", InReason(L[i].what), TRUE)
                             /\ L[i - 2] = Ev("invoke", L[i].what, TRUE)
                 /\ (L[i].ev = "charge" /\ L[i].what \in InReasons)
                    => i > 1 /\ L[i - 1].ev = "invoke" /\ InReason(L[i - 1].what) = L[i].what
                 /\ (L[i].ev = "charge" /\ L[i].what \in OutReasons)
                    => /\ i > 1 /\ L[i - 1].ev = "status" /\ L[i - 1].ok
                       /\ OutReason(L[i - 1].what) = L[i].what
                       /\ \E j \in 1 .. i - 2 : L[j] = Ev("call", L[i - 1].what, TRUE)
                 /\ (L[i].ev = "status" /\ ~L[i].ok)
                    => i < Len(L) /\ L[i + 1] = Ev("reject", "provider_error", FALSE)
                 /\ L[i].ev = "return"
                    => i > 1 /\ L[i - 1] = Ev("charge", OutReason(L[i].what), TRUE)
                 /\ L[i].ev = "resolve" => i > 1 /\ L[i - 1].ev = "return"
            /\ LET IsReturn(e) == e.ev = "return"
                   IsPaidOutput(e) == e.ev = "charge" /\ e.what \in OutReasons /\ e.ok
                   IsCall(e) == e.ev = "call"
               IN  /\ CountLog(L, IsReturn) = CountLog(L, IsPaidOutput)
                   /\ CountLog(L, IsReturn) <= CountLog(L, IsCall)
                   /\ CountLog(L, IsCall) = Len(rq[r].net)

\* both adapters of the research pipeline were paid for, called and returned
C15_Witness ==
    \E r \in Reqs :
        LET L == rq[r].log
        IN  /\ rq[r].rpc = "resolved"
            /\ \E i, j \in 1 .. Len(L) :
                 /\ i < j
                 /\ L[i] = Ev("return", "perplexity", TRUE)
                 /\ L[j] = Ev("return", "claude", TRUE)

-----------------------------------------------------------------------------
(* Budget failures before a call *)

\* a charge made before a network call: the simulated tokens, an input
IsUpFront(e) == e.ev = "charge" /\ e.what \in InReasons \cup {"sim_tokens"}

FallbackSent(q) ==
    /\ Len(q.resp) = 1
    /\ TheResponse(q).status = 200
    /\ TheResponse(q).body = twimlSay(FallbackOf(env.handler))

\* C16 as stated: when an input charge or the simulated-tokens charge
\* failed, the request issued no network call at all and answered with the
\* fallback; and a request whose first prompt costs more than the ceiling
\* issued no network call.
C16_FailedInputChargeMeansNoCall ==
    \A r \in Reqs :
        LET q == rq[r]
            L == q.log
        IN  /\ (\E i \in 1 .. Len(L) : IsUpFront(L[i]) /\ ~L[i].ok)
               => q.net = <<>> /\ FallbackSent(q)
            /\ \A k \in 1 .. Len(q.charges) :
                 (/\ q.charges[k].reason \in InReasons
                  /\ \A j \in 1 .. k - 1 : q.charges[j].reason \notin InReasons
                  /\ q.charges[k].cents > q.budget.maxCents)
                 => q.net = <<>>

\* C16: when an input charge or the simulated-tokens charge failed, it is
\* the request's last charge, the router rejected with budget_exceeded, the
\* adapter's call was not issued and no network call follows in the
\* request, and the response is the fallback; when the failed charge came
\* before any call (the simulated tokens, the first adapter's input) the
\* request issued no network call at all; and a request whose first input
\* charge makes a rounded total above the ceiling issued none.
C16_FailedInputChargeStopsCalls ==
    \A r \in Reqs :
        LET q == rq[r]
            L == q.log
        IN  /\ \A i \in 1 .. Len(L) :
                 (IsUpFront(L[i]) /\ ~L[i].ok)
                 => /\ \A j \in i + 1 .. Len(L) : L[j].ev \notin {"call", "invoke", "charge"}
                    /\ LastThrew(q)
                    /\ q.rpc = "rejected" /\ q.rerr = "budget_exceeded"
                    /\ FallbackSent(q)
                    /\ (\A j \in 1 .. i - 1 : L[j].ev # "call") => q.net = <<>>
            /\ \A k \in 1 .. Len(q.charges) :
                 (/\ q.charges[k].reason \in InReasons
                  /\ \A j \in 1 .. k - 1 : q.charges[j].reason \notin InReasons
                  /\ RoundCents(q.charges[k].before + q.charges[k].cents) > q.budget.maxCents)
                 => q.net = <<>> /\ q.charges[k].threw

\* the summary's input charge failed after the research call had been made
C16_Witness ==
    \E r \in Reqs :
        /\ rq[r].charges # <<>> /\ LastThrew(rq[r])
        /\ rq[r].charges[Len(rq[r].charges)].reason = "claude_in"
        /\ rq[r].net = <<"perplexity">>
        /\ FallbackSent(rq[r])

-----------------------------------------------------------------------------
(* No retries *)

\* C17: every network call belongs to an adapter invocation of its own, and
\* no provider is called twice; once the router failed (key missing, budget,
\* provider error, abort) the request invokes no adapter, issues no call and
\* makes no charge any more, the router stays rejected with that one
\* failure, and the handler has answered with the fallback; the
\* summarization is invoked only after the research adapter returned.
C17_NoRetries ==
    \A r \in Reqs :
        LET q == rq[r]
            L == q.log
        IN  /\ Len(q.net) <= Len(q.calls)
            /\ \A i, j \in 1 .. Len(q.net) : i # j => q.net[i] # q.net[j]
            /\ \A i, j \in 1 .. Len(L) :
                 (i < j /\ L[i].ev = "call" /\ L[j].ev = "call")
                 => \E k \in i + 1 .. j - 1 : L[k].ev = "invoke"
            /\ \A i \in 1 .. Len(L) :
                 L[i].ev = "reject"
                 => /\ \A j \in i + 1 .. Len(L) :
                         L[j].ev \notin {"invoke", "call", "charge", "reject", "resolve"}
                    /\ q.rpc = "rejected" /\ q.rerr = L[i].what
                    /\ q.routeWait \in {"error", "timeout"}
                    /\ FallbackSent(q)
            /\ \A i \in 1 .. Len(L) :
                 (q.intent \in PPLX_INTENTS /\ L[i] = Ev("invoke", "claude", TRUE))
                 => i > 1 /\ L[i - 1] = Ev("return", "perplexity", TRUE)

\* the research call failed and the summarization was never invoked
C17_Witness ==
    \E r \in Reqs :
        /\ rq[r].intent \in PPLX_INTENTS
        /\ rq[r].rpc = "rejected" /\ rq[r].rerr \in {"provider_error", "aborted"}
        /\ rq[r].net = <<"perplexity">> /\ Len(rq[r].calls) = 1
        /\ FallbackSent(rq[r])

-----------------------------------------------------------------------------
(* Work after the response *)

\* C18: after a request's response has been sent the request issues no
\* provider call and no synthesis call, makes no charge and writes no audio
\* file: nothing of the kind follows the response in its trace.
C18_NothingAfterResponse ==
    \A r \in Reqs :
        LET L == rq[r].log
        IN  \A i, j \in 1 .. Len(L) :
                (i < j /\ L[i].ev = "respond")
                => L[j].ev \notin {"call", "charge", "tts_call", "file"}

-----------------------------------------------------------------------------
(* Timeout composition *)

\* C19: the provider stage has one timer, armed when the handler starts
\* routing and due 8 s after, whatever the number of stages, and routing
\* is never awaited longer; synthesis is invoked once at most, directly
\* after the router resolved with non-empty text while the handler was
\* still awaiting it, and nothing of the routing follows it; never after
\* routing failed or timed out; and a request is answered within the
\* provider timeout plus the synthesis timeout.
C19_TimeoutsCompose ==
    \A r \in Reqs :
        LET q == rq[r]
            L == q.log
        IN  /\ q.timers.outer # NoValue => q.timers.outer = q.t0 + OuterTimeout
            /\ q.routeWait = "pending" => now - q.t0 <= OuterTimeout
            /\ q.timers.tts # NoValue
               => /\ q.routeWait = "ok"
                  /\ q.timers.tts <= q.t0 + OuterTimeout + TtsTimeout
            /\ (q.ttsCalls > 0 \/ q.tpc # "none" \/ q.ttsWait # "none")
               => /\ q.ttsCalls = 1
                  /\ q.routeWait = "ok" /\ q.rpc = "resolved" /\ Truthy(Trim(q.rtext))
            /\ q.routeWait \in {"error", "timeout", "pending"}
               => q.ttsCalls = 0 /\ q.timers.tts = NoValue
            /\ \A i \in 1 .. Len(L) :
                 L[i].ev = "tts_invoke"
                 => /\ i > 1 /\ L[i - 1] = Ev("resolve", "router", TRUE)
                    /\ \A j \in i + 1 .. Len(L) :
                         L[j].ev \notin {"invoke", "call", "charge", "status", "abort",
                                         "return", "reject", "resolve", "tts_invoke"}
            /\ q.pc \notin {"idle", "done"} => now - q.t0 <= OuterTimeout + TtsTimeout
            /\ \A i \in 1 .. Len(q.resp) : q.resp[i].at <= OuterTimeout + TtsTimeout

\* both stages of the research pipeline took the whole 8 s together, and
\* synthesis then ran into its own 5 s timeout
C19_Witness ==
    \E r \in Reqs :
        /\ rq[r].intent \in PPLX_INTENTS /\ Len(rq[r].net) = 2
        /\ rq[r].routeWait = "ok" /\ rq[r].ttsWait = "timeout"
        /\ Len(rq[r].resp) = 1
        /\ TheResponse(rq[r]).at = OuterTimeout + TtsTimeout

-----------------------------------------------------------------------------
(* Isolation of budgets *)

\* the ceiling the handler reads from the request's own payload
OwnCeiling(q) ==
    IF env.handler = 1 THEN budgetMaxCents1(q.payload) ELSE budgetMaxCents2(q.payload)

\* C20: whatever the interleaving of the requests, each request's budget
\* has the ceiling of its own payload and starts from 0; its spent amount
\* is the running total of its own charges alone, each applied to the total
\* its own previous charge left, and each of its charges failed exactly
\* when its own total went above its own ceiling.
C20_BudgetsIsolated ==
    \A r \in Reqs :
        LET q == rq[r]
        IN  /\ ~q.hasBudget => q.charges = <<>>
            /\ q.hasBudget
               => /\ q.budget.maxCents = OwnCeiling(q)
                  /\ OneBudget(q)
                  /\ \A i \in 1 .. Len(q.charges) :
                       /\ q.charges[i].total
                              = RoundCents(q.charges[i].before + q.charges[i].cents)
                       /\ q.charges[i].threw <=> (q.charges[i].total > OwnCeiling(q))

\* two requests in flight at once, both already charged, with different
\* ceilings and different spent amounts
C20_Witness ==
    \E r1, r2 \in Reqs :
        /\ r1 # r2
        /\ rq[r1].rpc = "call" /\ rq[r2].rpc = "call"
        /\ Len(rq[r1].charges) = 2 /\ Len(rq[r2].charges) = 1
        /\ rq[r1].budget.maxCents # rq[r2].budget.maxCents
        /\ rq[r1].budget.usedCents # rq[r2].budget.usedCents

-----------------------------------------------------------------------------
(* Classification of routing errors *)

\* C21: when the handler's provider await ended because the call in flight
\* was aborted at its per-call timeout, or because the outer timer fired,
\* the handler classified the error as a timeout; a budget error is
\* classified as budget and any other failure as a provider error.
C21_TimeoutsClassifiedAsTimeout ==
    \A r \in Reqs :
        LET q == rq[r]
        IN  /\ q.routeWait = "timeout" => q.logged = "timeout"
            /\ (q.routeWait = "error" /\ q.rerr = "aborted") => q.logged = "timeout"
            /\ (q.routeWait = "error" /\ q.rerr = "budget_exceeded") => q.logged = "budget"
            /\ (q.routeWait = "error" /\ q.rerr \in {"provider_error", "key_missing"})
               => q.logged = "provider_error"

-----------------------------------------------------------------------------
(* Properties of the extraction alone *)

\* the positions, in priority order, of the fields that hold a non-empty value
NonEmptyFields(u) ==
    {i \in 1 .. Len(InputFields) :
        u[InputFields[i]] # Absent /\ TextLen(u[InputFields[i]]) > 0}

\* C22: the extracted input is the value of the first field, in the order
\* SpeechResult, TranscriptionText, Body, Digits, prompt, that is present
\* and not empty, and the default prompt when there is none; it is never
\* empty nor absent, for every payload and for no payload at all.
C22_FirstNonEmptyField ==
    probe.done
    => LET u == probe.input.utter
           firsts == NonEmptyFields(u)
       IN  /\ probe.output # Absent /\ TextLen(probe.output) > 0
           /\ firsts = {} => probe.output = DefaultPrompt
           /\ firsts # {}
              => LET first == CHOOSE i \in firsts : \A j \in firsts : i <= j
                 IN  probe.output = u[InputFields[first]]

\* two fields of higher priority are absent or empty, two of lower priority
\* hold a text: the first of these is returned
C22_Witness ==
    /\ probe.done /\ probe.input.given
    /\ probe.input.utter.SpeechResult = Absent
    /\ probe.input.utter.TranscriptionText = EmptyText
    /\ probe.input.utter.Body = FieldText("Body")
    /\ probe.input.utter.prompt = FieldText("prompt")
    /\ probe.output = FieldText("Body")

-----------------------------------------------------------------------------
(* One response *)

\* C23: a request never has more than one response: its trace holds one
\* respond entry at most, which is the response it has; a request is done
\* exactly when it has responded; and this is so too when the router's or
\* the synthesis' promise settles after its timer has answered.
C23_AtMostOneResponse ==
    \A r \in Reqs :
        LET q == rq[r]
            L == q.log
            IsRespond(e) == e.ev = "respond"
        IN  /\ Len(q.resp) <= 1
            /\ CountLog(L, IsRespond) = Len(q.resp)
            /\ \A i \in 1 .. Len(L) :
                 IsRespond(L[i]) => L[i].what = TheResponse(q).body.kind
            /\ (q.pc = "done") <=> (Len(q.resp) = 1)
            /\ (q.routeWait = "timeout" \/ q.ttsWait = "timeout") => Len(q.resp) = 1

\* the router's promise rejected, by the abort of its call, after the outer
\* timer had answered
C23_Witness ==
    \E r \in Reqs :
        /\ rq[r].routeWait = "timeout"
        /\ rq[r].rpc = "rejected" /\ rq[r].rerr = "aborted"
        /\ Len(rq[r].resp) = 1

-----------------------------------------------------------------------------
(* The budget after a failed call *)

IsCharge(e) == e.ev = "charge"

\* a call ended without a success status: non-success answer, or abort
IsCallFailure(e) == (e.ev = "status" /\ ~e.ok) \/ e.ev = "abort"

\* the last charge of the request is the successful input charge of the
\* provider, and the budget holds the total that charge returned
LeftAtInputCharge(q, provider) ==
    /\ q.charges # <<>>
    /\ q.charges[Len(q.charges)].reason = InReason(provider)
    /\ ~LastThrew(q)
    /\ q.budget.usedCents = q.charges[Len(q.charges)].total

\* an adapter stopped at its key check: invoked, and rejected at once
KeyMissingAt(L, i) ==
    L[i] = Ev("reject", "key_missing", FALSE) /\ i > 1 /\ L[i - 1].ev = "invoke"

\* C24 as stated: after a call failed, the budget holds the amount it held
\* before the call's input charge plus exactly that charge, with no output
\* charge; after a missing key, the budget is unchanged and no call issued.
C24_InputChargeAddedExactly ==
    \A r \in Reqs :
        LET q == rq[r]
            L == q.log
        IN  \A i \in 1 .. Len(L) :
                /\ IsCallFailure(L[i])
                   => /\ LeftAtInputCharge(q, L[i].what)
                      /\ q.budget.usedCents
                            = q.charges[Len(q.charges)].before + q.charges[Len(q.charges)].cents
                /\ KeyMissingAt(L, i) => OneBudget(q) /\ Len(q.net) < Len(q.calls)

\* C24: after a call failed (non-success status, abort) the request's last
\* charge is that call's input charge, made before the call; the budget
\* holds the total that charge left (spent + amount, rounded to 0.01 cent),
\* with no output charge for the call and no refund.  After a missing key
\* the adapter made no charge and issued no call: the budget holds what the
\* charges before the invocation left, or 0.
C24_FailedCallKeepsInputCharge ==
    \A r \in Reqs :
        LET q == rq[r]
            L == q.log
        IN  \A i \in 1 .. Len(L) :
                /\ IsCallFailure(L[i])
                   => /\ LeftAtInputCharge(q, L[i].what)
                      /\ q.budget.usedCents
                            = RoundCents(q.charges[Len(q.charges)].before
                                            + q.charges[Len(q.charges)].cents)
                      /\ OneBudget(q)
                      /\ \E j \in 2 .. i - 1 :
                            /\ L[j] = Ev("call", L[i].what, TRUE)
                            /\ L[j - 1] = Ev("charge", InReason(L[i].what), TRUE)
                            /\ \A k \in j .. Len(L) : ~IsCharge(L[k])
                /\ KeyMissingAt(L, i)
                   => /\ OneBudget(q)
                      /\ \A k \in i - 1 .. Len(L) : ~IsCharge(L[k]) /\ L[k].ev # "call"
                      /\ Len(q.net) = Len(q.calls) - 1
                      /\ CountLog(L, IsCharge) = Len(q.charges)
                      /\ q.charges # <<>> => ~LastThrew(q)

\* the summarization call failed after the research stage had been paid
\* for; its input charge is one the rounding changes
C24_Witness ==
    \E r \in Reqs :
        LET q == rq[r]
        IN  /\ q.rpc = "rejected" /\ q.rerr = "provider_error"
            /\ q.net = <<"perplexity", "claude">>
            /\ LeftAtInputCharge(q, "claude")
            /\ q.charges[Len(q.charges)].cents % Hundredth # 0

====
